---- MODULE Spec2Model ----
(***************************************************************************)
(* Model of aws_arn (src/aws_arn/__init__.py): the rule table CONFIG, the  *)
(* policy lookup arn_config, the literal assembler arn, the CloudFormation *)
(* assembler cloudformation and the parser split.                          *)
(*                                                                         *)
(* A Python str is a sequence of one-character strings.  An optional value *)
(* (an argument defaulting to None, a key a JSON object may lack) is None  *)
(* or Some(v).                                                             *)
(***************************************************************************)
EXTENDS Integers, Sequences, FiniteSets, TLC

VARIABLES
    CONFIG,   \* the rule table loaded from config.json
    pc,       \* "idle" before a call, "done" after it returned or raised
    call,     \* the function called last and its arguments
    result,   \* what that call returned, raised and passed to on_error
    built     \* the fields arn placed in the identifier the caller holds

vars == <<CONFIG, pc, call, result, built>>

None == <<>>

Some(v) == <<v>>

Val(o) == o[1]

\* Python truth value of an optional bool argument: None and False are falsy.
TruthyBool(o) == o # None /\ Val(o)

\* Python truth value of an optional str argument: None and '' are falsy.
TruthyStr(o) == o # None /\ Val(o) # <<>>

(***************************************************************************)
(* Bounds of the model.                                                    *)
(***************************************************************************)
MaxRules == 2

MaxLen == 2

MaxArnLen == 6

MaxParts == 2

\* All sequences over S of length at most n.
RECURSIVE SeqsUpTo(_, _)
SeqsUpTo(S, n) ==
    IF n = 0 THEN {<<>>}
    ELSE LET shorter == SeqsUpTo(S, n - 1)
         IN  shorter \cup {Append(s, x) : s \in {t \in shorter : Len(t) = n - 1}, x \in S}

(***************************************************************************)
(* The rule table.  A rule is a JSON object with key "service" and the     *)
(* optional keys "resource" (a pattern), "region" and "account".           *)
(***************************************************************************)
ServiceNames == {<<"s">>, <<"t">>}

Patterns == {<<"a">>}

Rules ==
    [service : ServiceNames,
     resource : {None} \cup {Some(p) : p \in Patterns},
     flags : {<<None, Some(FALSE)>>, <<Some(FALSE), Some(TRUE)>>, <<Some(TRUE), None>>}]

Rule(r) ==
    [service |-> r.service, resource |-> r.resource,
     region |-> r.flags[1], account |-> r.flags[2]]

Tables == SeqsUpTo({Rule(r) : r \in Rules}, MaxRules)

\* re.search(pattern, string) for a literal pattern: the pattern occurs
\* somewhere in the string.
re_search(pattern, string) ==
    \E i \in 1..(Len(string) - Len(pattern) + 1) :
        SubSeq(string, i, i + Len(pattern) - 1) = pattern

\* dict.get(key, True) on a rule
get_default_false(o) == IF o = None THEN FALSE ELSE Val(o)

get(o) == IF o = None THEN TRUE ELSE Val(o)

\* The for loop of arn_config from rule i on: the (region, account) pair of
\* the first rule that is not skipped, (True, True) when the loop runs out.
RECURSIVE scan_no_continue(_, _, _)
scan_no_continue(i, service, resource) ==
    IF i > Len(CONFIG) THEN <<TRUE, TRUE>>
    ELSE LET service_config == CONFIG[i]
         IN  IF service_config.service = service
             THEN IF service_config.resource # None
                     /\ ~re_search(Val(service_config.resource), resource)
                  THEN <<TRUE, TRUE>>
                  ELSE <<get(service_config.region), get(service_config.account)>>
             ELSE scan_no_continue(i + 1, service, resource)

RECURSIVE scan(_, _, _)
scan(i, service, resource) ==
    IF i > Len(CONFIG) THEN <<TRUE, TRUE>>
    ELSE LET service_config == CONFIG[i]
         IN  IF service_config.service = service
             THEN IF service_config.resource # None
                     /\ ~re_search(Val(service_config.resource), resource)
                  THEN scan(i + 1, service, resource)
                  ELSE <<get(service_config.region), get(service_config.account)>>
             ELSE scan(i + 1, service, resource)

\* arn_config(service, resource, force_region, force_account)
arn_config(service, resource, force_region, force_account) ==
    LET looked == scan(1, service, resource)
        arn_has_region == IF TruthyBool(force_region) THEN Val(force_region) ELSE looked[1]
        arn_has_account == IF TruthyBool(force_account) THEN Val(force_account) ELSE looked[2]
    IN  <<arn_has_region, arn_has_account>>

ForceFlags == {None, Some(TRUE), Some(FALSE)}

(***************************************************************************)
(* arn: the literal assembler.                                             *)
(***************************************************************************)
\* '{:0>12}'.format(account) pads to this width.
AccountWidth == 12

\* str.split's maxsplit argument in split.
MaxSplit == 5

Colon == <<":">>

\* '{:0>12}'.format(account): '0's on the left up to AccountWidth characters;
\* a longer value is left as it is.
ZeroPadRight(account) ==
    IF Len(account) >= AccountWidth THEN account
    ELSE account \o [i \in 1..(AccountWidth - Len(account)) |-> "0"]

ZeroPad(account) ==
    IF Len(account) >= AccountWidth THEN account
    ELSE [i \in 1..(AccountWidth - Len(account)) |-> "0"] \o account

\* What '{}'.format(x) writes for an optional str: None is written 'None'.
Str(o) == IF o = None THEN <<"N", "o", "n", "e">> ELSE Val(o)

\* sep.join(list), on a list of words; a message is a sequence of words.
RECURSIVE join(_, _)
join(sep, list) ==
    IF list = <<>> THEN <<>>
    ELSE IF Len(list) = 1 THEN list
    ELSE <<Head(list), sep>> \o join(sep, Tail(list))

\* The on_error argument: None, a handler that returns normally, or one
\* that raises (main passes sys.exit, which raises SystemExit).
OnErrors == {None, Some("returns"), Some("raises")}

\* err(msg): the message is signalled; control comes back to arn only when
\* on_error is given and returns.
err(st, on_error, msg) ==
    IF on_error = None
    THEN [st EXCEPT !.signalled = Append(@, msg), !.raised = Some("RuntimeError")]
    ELSE IF Val(on_error) = "raises"
    THEN [st EXCEPT !.signalled = Append(@, msg), !.raised = Some("SystemExit")]
    ELSE [st EXCEPT !.signalled = Append(@, msg)]

\* Lines 105-113.
region_stage(st, arn_has_region, profile, env) ==
    IF ~arn_has_region THEN [st EXCEPT !.region = Some(<<>>)]
    ELSE IF ~TruthyStr(st.region)
    THEN IF TruthyStr(profile)
         THEN IF ~env.boto3 THEN [st EXCEPT !.raised = Some("ImportError")]
              ELSE [st EXCEPT !.session = TRUE, !.region = env.region_name]
         ELSE [st EXCEPT !.missing = Append(@, "region")]
    ELSE st

\* Lines 119-123: the guarded import, then session = session or boto3.Session(...)
import_stage(st, on_error, env) ==
    LET imported == IF env.boto3 THEN st
                    ELSE err(st, on_error, <<"Error: boto3 is not installed">>)
    IN  IF imported.raised # None THEN imported
        ELSE IF imported.session THEN imported
        ELSE IF ~env.boto3 THEN [imported EXCEPT !.raised = Some("UnboundLocalError")]
        ELSE [imported EXCEPT !.session = TRUE]

\* Lines 124-127.
sts_stage(st, on_error, env) ==
    IF st.raised # None THEN st
    ELSE IF env.sts = None
    THEN err(st, on_error, <<"Error using profile to get account: ", "sts">>)
    ELSE [st EXCEPT !.account = env.sts]

\* Lines 115-133.
account_stage(st, arn_has_account, profile, on_error, env) ==
    IF st.raised # None THEN st
    ELSE IF ~arn_has_account THEN [st EXCEPT !.account = Some(<<>>)]
    ELSE IF ~TruthyStr(st.account)
    THEN IF TruthyStr(profile)
         THEN sts_stage(import_stage(st, on_error, env), on_error, env)
         ELSE [st EXCEPT !.missing = Append(@, "account")]
    ELSE IF Val(st.account) # <<"*">>
    THEN [st EXCEPT !.account = Some(ZeroPad(Val(@)))]
    ELSE [st EXCEPT !.account = Some(<<>>)]

\* Lines 135-136.
missing_stage_first_only(st, on_error) ==
    IF st.raised # None \/ st.missing = <<>> THEN st
    ELSE err(st, on_error, <<"Error: ", Head(st.missing), " required">>)

missing_stage(st, on_error) ==
    IF st.raised # None \/ st.missing = <<>> THEN st
    ELSE err(st, on_error, <<"Error: ">> \o join(" and ", st.missing) \o <<" required">>)

\* Lines 138-144: 'arn:{partition}:{service}:{region}:{account}:{resource}'
format(fields) ==
    <<"a", "r", "n">> \o Colon \o fields[1] \o Colon \o fields[2] \o Colon
        \o fields[3] \o Colon \o fields[4] \o Colon \o fields[5]

\* arn(service, resource, region, account, profile, partition, force_region,
\* force_account, on_error), with env the answers of boto3 during the call.
arn(a, env) ==
    LET partition == IF TruthyStr(a.partition) THEN Val(a.partition) ELSE <<"a", "w", "s">>
        cfg == arn_config(a.service, a.resource, a.force_region, a.force_account)
        st0 == [region |-> a.region, account |-> a.account, missing |-> <<>>,
                session |-> FALSE, signalled |-> <<>>, raised |-> None]
        st1 == region_stage(st0, cfg[1], a.profile, env)
        st2 == account_stage(st1, cfg[2], a.profile, a.on_error, env)
        st3 == missing_stage(st2, a.on_error)
        fields == <<partition, a.service, Str(st3.region), Str(st3.account), a.resource>>
    IN  IF st3.raised # None
        THEN [kind |-> "raise", value |-> Val(st3.raised), signalled |-> st3.signalled,
              fields |-> None, arn_has |-> cfg, missing |-> st3.missing]
        ELSE [kind |-> "return", value |-> format(fields), signalled |-> st3.signalled,
              fields |-> Some(fields), arn_has |-> cfg, missing |-> st3.missing]

(***************************************************************************)
(* split: the parser.                                                      *)
(***************************************************************************)
\* The fields of the namedtuple _arn_tuple.
ArnFields == <<"partition", "service", "region", "account", "resource">>

\* Index of the first ':' of s from position i on, 0 when there is none.
RECURSIVE find(_, _)
find(s, i) ==
    IF i > Len(s) THEN 0
    ELSE IF s[i] = ":" THEN i
    ELSE find(s, i + 1)

\* s.split(':', maxsplit): cut at the first maxsplit colons, from the left;
\* a negative maxsplit cuts at every colon.
RECURSIVE str_split(_, _)
str_split(s, maxsplit) ==
    LET i == find(s, 1)
    IN  IF maxsplit = 0 \/ i = 0 THEN <<s>>
        ELSE <<SubSeq(s, 1, i - 1)>> \o str_split(SubSeq(s, i + 1, Len(s)), maxsplit - 1)

\* split(arn): _arn_tuple(*arn.split(':', 5)[1:]); the namedtuple takes
\* exactly its five fields and raises TypeError otherwise.
split_every_colon(arn_string) ==
    LET parts == Tail(str_split(arn_string, 0 - 1))
    IN  IF Len(parts) = Len(ArnFields)
        THEN [kind |-> "return", value |-> parts]
        ELSE [kind |-> "raise", value |-> "TypeError"]

split_short_tuple(arn_string) ==
    [kind |-> "return", value |-> Tail(str_split(arn_string, MaxSplit))]

split(arn_string) ==
    LET parts == Tail(str_split(arn_string, MaxSplit))
    IN  IF Len(parts) = Len(ArnFields)
        THEN [kind |-> "return", value |-> parts]
        ELSE [kind |-> "raise", value |-> "TypeError"]

(***************************************************************************)
(* cloudformation: the symbolic assembler.  A part of the output (and of   *)
(* a resource list) is a str or a {'Ref': name} object.                    *)
(***************************************************************************)
Lit(s) == [t |-> "str", v |-> s]

Ref(name) == [t |-> "ref", v |-> <<name>>]

\* The resource argument: a single str, or a list of parts.
StrArg(s) == [str |-> s]

ListArg(l) == [list |-> l]

isinstance_str(resource) == "str" \in DOMAIN resource

\* Lines 153-154.
normalize(resource) == IF isinstance_str(resource) THEN <<Lit(resource.str)>> ELSE resource.list

\* Lines 156-159, on the normalized, non-empty list.
resource_for_config_last(parts) ==
    IF parts[Len(parts)].t = "str" THEN parts[Len(parts)].v ELSE <<>>

resource_for_config(parts) ==
    IF parts[1].t = "str" THEN parts[1].v ELSE <<>>

\* Lines 166-192: the fragments before the resource parts.
prefix_parts_short(service, arn_has_region, arn_has_account) ==
    <<Lit(<<"a", "r", "n", ":">>), Ref("AWS::Partition")>> \o
    ( IF arn_has_region /\ arn_has_account
      THEN <<Lit(Colon \o service \o Colon), Ref("AWS::Region"), Lit(Colon),
             Ref("AWS::AccountId"), Lit(Colon)>>
      ELSE IF arn_has_region
      THEN <<Lit(Colon \o service \o Colon), Ref("AWS::Region"), Lit(Colon)>>
      ELSE IF arn_has_account
      THEN <<Lit(Colon \o service \o Colon \o Colon), Ref("AWS::AccountId"), Lit(Colon)>>
      ELSE <<Lit(Colon \o service \o Colon \o Colon \o Colon)>> )

prefix_parts(service, arn_has_region, arn_has_account) ==
    <<Lit(<<"a", "r", "n", ":">>), Ref("AWS::Partition")>> \o
    ( IF arn_has_region /\ arn_has_account
      THEN <<Lit(Colon \o service \o Colon), Ref("AWS::Region"), Lit(Colon),
             Ref("AWS::AccountId"), Lit(Colon)>>
      ELSE IF arn_has_region
      THEN <<Lit(Colon \o service \o Colon), Ref("AWS::Region"), Lit(Colon \o Colon)>>
      ELSE IF arn_has_account
      THEN <<Lit(Colon \o service \o Colon \o Colon), Ref("AWS::AccountId"), Lit(Colon)>>
      ELSE <<Lit(Colon \o service \o Colon \o Colon \o Colon)>> )

\* cloudformation(service, resource, force_region, force_account); resource[0]
\* of an empty list raises IndexError.
cloudformation(service, resource, force_region, force_account) ==
    LET list == normalize(resource)
    IN  IF list = <<>>
        THEN [kind |-> "raise", value |-> "IndexError"]
        ELSE LET for_config == resource_for_config(list)
                 cfg == arn_config(service, for_config, force_region, force_account)
                 parts == prefix_parts(service, cfg[1], cfg[2]) \o list
             IN  [kind |-> "return",
                  value |-> [FnJoin |-> <<<<>>, parts>>],
                  resource_for_config |-> for_config,
                  arn_has |-> cfg]

Idle == [op |-> "none"]

NoResult == [kind |-> "none"]

(***************************************************************************)
(* Specification of the policy lookup: CONFIG is loaded once, then         *)
(* arn_config is called with arbitrary arguments.                          *)
(***************************************************************************)
ConfigServices == ServiceNames

ConfigResources == SeqsUpTo({"a", "b"}, MaxLen)

InitConfig ==
    /\ CONFIG \in Tables
    /\ pc = "idle"
    /\ call = Idle
    /\ result = NoResult
    /\ built = None

CallArnConfig ==
    /\ pc = "idle"
    /\ \E service \in ConfigServices, resource \in ConfigResources,
          force_region \in ForceFlags, force_account \in ForceFlags :
        /\ call' = [op |-> "arn_config", service |-> service, resource |-> resource,
                    force_region |-> force_region, force_account |-> force_account]
        /\ result' = [kind |-> "return",
                      value |-> arn_config(service, resource, force_region, force_account)]
    /\ pc' = "done"
    /\ UNCHANGED <<CONFIG, built>>

\* The caller has consumed the result; the next call is independent.
Finish ==
    /\ pc = "done"
    /\ pc' = "idle"
    /\ call' = Idle
    /\ result' = NoResult
    /\ built' = None
    /\ UNCHANGED CONFIG

NextConfig == CallArnConfig \/ Finish

SpecConfig == InitConfig /\ [][NextConfig]_vars

(***************************************************************************)
(* Specification of the literal assembler: CONFIG holds a table with one   *)
(* service that needs neither field, one whose rules depend on the         *)
(* resource, and no rule for the other services; arn is called, and the    *)
(* caller may hand the identifier it got to split.                         *)
(***************************************************************************)
SampleConfig ==
    << [service |-> <<"s">>, resource |-> None, region |-> Some(FALSE), account |-> Some(FALSE)],
       [service |-> <<"t">>, resource |-> Some(<<"a">>), region |-> None, account |-> Some(FALSE)],
       [service |-> <<"t">>, resource |-> None, region |-> Some(FALSE), account |-> None] >>

AsmServices == {<<"s">>, <<"t">>, <<"u">>, <<"u", ":">>}

ArnResources == {<<"a">>, <<"b", ":", "b">>}

ArnRegions == {None, Some(<<>>), Some(<<"r">>), Some(<<"r", ":">>)}

ArnAccounts ==
    {None, Some(<<"*">>), Some(<<"4", "2">>), Some(<<"4", ":">>),
     Some(<<"1", "2", "3", "4", "5", "6", "7", "8", "9", "0", "1", "2", "3">>)}

ArnPartitions == {None, Some(<<"p">>), Some(<<"p", ":">>)}

ArnProfiles == {None, Some(<<"d">>)}

\* What boto3 answers for the profile: whether it is installed, the region
\* of the profile (None when it sets none), the account of the caller
\* (None when get_caller_identity raises).
NoEnv == [boto3 |-> FALSE, region_name |-> None, sts |-> None]

Envs ==
    {[boto3 |-> TRUE, region_name |-> Some(<<"e">>), sts |-> Some(<<"7">>)],
     [boto3 |-> TRUE, region_name |-> None, sts |-> Some(<<"7">>)],
     [boto3 |-> TRUE, region_name |-> Some(<<"e">>), sts |-> None],
     NoEnv}

InitAsm ==
    /\ CONFIG = SampleConfig
    /\ pc = "idle"
    /\ call = Idle
    /\ result = NoResult
    /\ built = None

CallArn ==
    /\ pc = "idle"
    /\ \E service \in AsmServices, resource \in ArnResources, region \in ArnRegions,
          account \in ArnAccounts, profile \in ArnProfiles, partition \in ArnPartitions,
          force_region \in ForceFlags, force_account \in ForceFlags,
          on_error \in OnErrors, env \in Envs :
        \* boto3 is consulted only when a profile is given
        /\ ~TruthyStr(profile) => env = NoEnv
        /\ LET a == [op |-> "arn", service |-> service, resource |-> resource,
                     region |-> region, account |-> account, profile |-> profile,
                     partition |-> partition, force_region |-> force_region,
                     force_account |-> force_account, on_error |-> on_error,
                     env |-> env]
               r == arn(a, env)
           IN  /\ call' = a
               /\ result' = r
               /\ built' = r.fields
    /\ pc' = "done"
    /\ UNCHANGED CONFIG

\* split(arn(...)): the caller passes the identifier arn returned to split.
SplitArn ==
    /\ pc = "done"
    /\ call.op = "arn"
    /\ result.kind = "return"
    /\ call' = [op |-> "split", arn |-> result.value]
    /\ result' = split(result.value)
    /\ UNCHANGED <<CONFIG, pc, built>>

NextArn == CallArn \/ SplitArn \/ Finish

SpecArn == InitAsm /\ [][NextArn]_vars

(***************************************************************************)
(* Specification of the parser on arbitrary input.                         *)
(***************************************************************************)
SplitInputs == SeqsUpTo({":", "a"}, MaxArnLen)

CallSplit ==
    /\ pc = "idle"
    /\ \E arn_string \in SplitInputs :
        /\ call' = [op |-> "split", arn |-> arn_string]
        /\ result' = split(arn_string)
    /\ pc' = "done"
    /\ UNCHANGED <<CONFIG, built>>

NextSplit == CallSplit \/ Finish

SpecSplit == InitAsm /\ [][NextSplit]_vars

(***************************************************************************)
(* Specification of the symbolic assembler.                                *)
(***************************************************************************)
CfnParts == {Lit(<<"a">>), Lit(<<"b">>), Ref("MyTable")}

CfnResources ==
    {StrArg(<<"a">>), StrArg(<<"b">>)} \cup {ListArg(l) : l \in SeqsUpTo(CfnParts, MaxParts)}

CallCloudformation ==
    /\ pc = "idle"
    /\ \E service \in AsmServices, resource \in CfnResources,
          force_region \in ForceFlags, force_account \in ForceFlags :
        /\ call' = [op |-> "cloudformation", service |-> service, resource |-> resource,
                    force_region |-> force_region, force_account |-> force_account]
        /\ result' = cloudformation(service, resource, force_region, force_account)
    /\ pc' = "done"
    /\ UNCHANGED <<CONFIG, built>>

NextCfn == CallCloudformation \/ Finish

SpecCfn == InitAsm /\ [][NextCfn]_vars

(***************************************************************************)
(* Vocabulary of the properties.                                           *)
(***************************************************************************)
\* p occurs somewhere in s: s is u \o p \o v for some u and v.
Occurs(p, s) ==
    \E n \in 0..Len(s), m \in 0..Len(s) :
        /\ n + Len(p) + m = Len(s)
        /\ s = SubSeq(s, 1, n) \o p \o SubSeq(s, Len(s) - m + 1, Len(s))

\* Rule i of the table matches the pair (service, resource).
Matches(i, service, resource) ==
    /\ CONFIG[i].service = service
    /\ CONFIG[i].resource = None \/ Occurs(Val(CONFIG[i].resource), resource)

\* Rule i is the first rule of the table that matches.
FirstMatch(i, service, resource) ==
    /\ Matches(i, service, resource)
    /\ \A j \in 1..(i - 1) : ~Matches(j, service, resource)

\* The rule's value for a field, an omitted field read as True.
FieldOf(o) == o = None \/ Val(o)

Colons(s) == Cardinality({i \in 1..Len(s) : s[i] = ":"})

NoColon(s) == Colons(s) = 0

InArnConfig == pc = "done" /\ call.op = "arn_config"

InArn == pc = "done" /\ call.op = "arn"

InSplit == pc = "done" /\ call.op = "split"

InCloudformation == pc = "done" /\ call.op = "cloudformation"

Unforced == call.force_region = None /\ call.force_account = None

(***************************************************************************)
(* Properties of arn_config (SpecConfig).                                  *)
(***************************************************************************)
\* C1: a force flag that is given (True or False) decides the corresponding
\* field of the result, whatever the table says.
C1_ForceFlagOverrides ==
    InArnConfig =>
        /\ call.force_region # None => result.value[1] = Val(call.force_region)
        /\ call.force_account # None => result.value[2] = Val(call.force_account)

\* C2: with unset flags the result is that of the first rule, in table
\* order, whose service is the given one and whose pattern, if it has one,
\* occurs in the resource; rules before it that do not match are skipped and
\* rules after it are not consulted.
C2_FirstMatchWins ==
    (InArnConfig /\ Unforced) =>
        \A i \in 1..Len(CONFIG) :
            FirstMatch(i, call.service, call.resource)
            => result.value = <<FieldOf(CONFIG[i].region), FieldOf(CONFIG[i].account)>>

\* A rule of the service with a pattern that is not found was skipped, and
\* the later rule of the service decided.
C2_Witness ==
    /\ InArnConfig /\ Unforced
    /\ Len(CONFIG) = 2
    /\ CONFIG[1].service = call.service
    /\ CONFIG[1].resource # None
    /\ ~Matches(1, call.service, call.resource)
    /\ Matches(2, call.service, call.resource)
    /\ result.value = <<FALSE, TRUE>>

\* C3: with unset flags, a pair no rule matches gets (True, True), and a
\* field the matching rule omits is True.
C3_DefaultsTrue ==
    (InArnConfig /\ Unforced) =>
        /\ (\A i \in 1..Len(CONFIG) : ~Matches(i, call.service, call.resource))
               => result.value = <<TRUE, TRUE>>
        /\ \A i \in 1..Len(CONFIG) :
               FirstMatch(i, call.service, call.resource)
               => /\ CONFIG[i].region = None => result.value[1]
                  /\ CONFIG[i].account = None => result.value[2]

\* The first matching rule says account false and omits region.
C3_Witness ==
    /\ InArnConfig /\ Unforced
    /\ Len(CONFIG) >= 1
    /\ Matches(1, call.service, call.resource)
    /\ CONFIG[1].region = None
    /\ CONFIG[1].account = Some(FALSE)
    /\ result.value = <<TRUE, FALSE>>

(***************************************************************************)
(* Properties of arn and of split(arn(...)) (SpecArn).                     *)
(***************************************************************************)
\* The fields the resolved policy requires and the caller did not supply
\* (None and '' are both "not supplied").
Wanted ==
    (IF result.arn_has[1] /\ ~TruthyStr(call.region) THEN <<"region">> ELSE <<>>)
    \o (IF result.arn_has[2] /\ ~TruthyStr(call.account) THEN <<"account">> ELSE <<>>)

\* C4: without a profile, the one message signalled names exactly the fields
\* that are required and not supplied, and nothing is signalled when there
\* is none.
C4_MessageNamesMissing ==
    (InArn /\ ~TruthyStr(call.profile)) =>
        result.signalled =
            CASE Wanted = <<>> -> <<>>
              [] Wanted = <<"region">> -> << <<"Error: ", "region", " required">> >>
              [] Wanted = <<"account">> -> << <<"Error: ", "account", " required">> >>
              [] OTHER -> << <<"Error: ", "region", " and ", "account", " required">> >>

\* Both fields are required and missing, and the message names both.
C4_Witness ==
    /\ InArn /\ call.profile = None
    /\ call.region = None /\ call.account = None
    /\ result.arn_has = <<TRUE, TRUE>>
    /\ result.signalled = << <<"Error: ", "region", " and ", "account", " required">> >>

\* C5: in a returned identifier, an account supplied to a policy that needs
\* one is written with '0's on the left up to 12 characters, '*' is written
\* as the empty field, and a policy that needs no account writes the empty
\* field.
C5_AccountField ==
    (InArn /\ result.kind = "return") =>
        LET field == Val(result.fields)[4]
            given == Val(call.account)
            zeros == Len(field) - Len(given)
        IN  /\ ~result.arn_has[2] => field = <<>>
            /\ (result.arn_has[2] /\ TruthyStr(call.account)) =>
                   IF given = <<"*">> THEN field = <<>>
                   ELSE /\ Len(field) = IF Len(given) > 12 THEN Len(given) ELSE 12
                        /\ \A i \in 1..zeros : field[i] = "0"
                        /\ \A i \in 1..Len(given) : field[zeros + i] = given[i]

\* '42' became '000000000042'.
C5_Witness ==
    /\ InArn /\ result.kind = "return"
    /\ result.arn_has[2]
    /\ call.account = Some(<<"4", "2">>)
    /\ Val(result.fields)[4] = <<"0", "0", "0", "0", "0", "0", "0", "0", "0", "0", "4", "2">>

\* C6 as stated: split of an identifier arn returned, with non-empty region
\* and account fields, gives back the five fields arn placed in it.
C6_RoundTrip ==
    (InSplit /\ built # None /\ Val(built)[3] # <<>> /\ Val(built)[4] # <<>>) =>
        result.kind = "return" /\ result.value = Val(built)

\* C6 amended: the same, when the partition, service, region and account
\* that arn placed contain no colon.
C6_RoundTripNoColon ==
    ( /\ InSplit /\ built # None /\ Val(built)[3] # <<>> /\ Val(built)[4] # <<>>
      /\ \A i \in 1..4 : NoColon(Val(built)[i]) ) =>
        result.kind = "return" /\ result.value = Val(built)

\* An identifier whose resource holds a colon went through split unchanged.
C6_Witness ==
    /\ InSplit /\ built # None
    /\ Val(built)[3] = <<"r">>
    /\ Val(built)[4] = <<"0", "0", "0", "0", "0", "0", "0", "0", "0", "0", "4", "2">>
    /\ Val(built)[5] = <<"b", ":", "b">>
    /\ result.kind = "return" /\ result.value = Val(built)

\* The account lookup of the credentials collaborator was made and failed.
LookupFailed ==
    /\ TruthyStr(call.profile)
    /\ result.arn_has[2]
    /\ ~TruthyStr(call.account)
    /\ call.env.boto3
    /\ call.env.sts = None

\* C9: when a field was recorded missing or the account lookup failed, the
\* failure is signalled and arn returns no identifier, also with an on_error
\* handler that returns.
C9_NoIdentifierAfterFailure ==
    (InArn /\ (result.missing # <<>> \/ LookupFailed)) =>
        result.signalled # <<>> /\ result.kind # "return"

(***************************************************************************)
(* Properties of split (SpecSplit).                                        *)
(***************************************************************************)
\* C7: an input with at least 5 colons gives five fields, the first four
\* colon-free, which with the dropped leading segment and colons between
\* them spell the input again (so the resource is all that follows the fifth
\* colon); an input with fewer colons raises.
C7_SplitAtMostFive ==
    InSplit =>
        IF Colons(call.arn) >= 5
        THEN /\ result.kind = "return"
             /\ Len(result.value) = 5
             /\ \A i \in 1..4 : NoColon(result.value[i])
             /\ \E n \in 0..Len(call.arn) :
                    /\ NoColon(SubSeq(call.arn, 1, n))
                    /\ call.arn = SubSeq(call.arn, 1, n) \o <<":">> \o result.value[1]
                                  \o <<":">> \o result.value[2] \o <<":">> \o result.value[3]
                                  \o <<":">> \o result.value[4] \o <<":">> \o result.value[5]
        ELSE result.kind = "raise"

\* An input with a sixth colon, kept in the resource.
C7_Witness ==
    /\ InSplit /\ built = None
    /\ Colons(call.arn) = 6
    /\ result.kind = "return"
    /\ result.value[5] = <<":">>

(***************************************************************************)
(* Properties of cloudformation (SpecCfn).                                 *)
(***************************************************************************)
\* The resource argument as a list.
Normalized ==
    IF "str" \in DOMAIN call.resource THEN <<Lit(call.resource.str)>> ELSE call.resource.list

\* The fragments of the output, and those before the resource parts.
Fragments == result.value.FnJoin[2]

Before == SubSeq(Fragments, 1, Len(Fragments) - Len(Normalized))

\* The middle the claim gives for each resolved pair.
Middle ==
    LET sv == call.service
    IN  CASE result.arn_has = <<TRUE, TRUE>> ->
                <<Lit(<<":">> \o sv \o <<":">>), Ref("AWS::Region"), Lit(<<":">>),
                  Ref("AWS::AccountId"), Lit(<<":">>)>>
          [] result.arn_has = <<TRUE, FALSE>> ->
                <<Lit(<<":">> \o sv \o <<":">>), Ref("AWS::Region"), Lit(<<":", ":">>)>>
          [] result.arn_has = <<FALSE, TRUE>> ->
                <<Lit(<<":">> \o sv \o <<":", ":">>), Ref("AWS::AccountId"), Lit(<<":">>)>>
          [] OTHER -> <<Lit(<<":">> \o sv \o <<":", ":", ":">>)>>

RECURSIVE LiteralColons(_)
LiteralColons(parts) ==
    IF parts = <<>> THEN 0
    ELSE (IF Head(parts).t = "str" THEN Colons(Head(parts).v) ELSE 0)
         + LiteralColons(Tail(parts))

Shape ==
    /\ result.value.FnJoin[1] = <<>>
    /\ Fragments = <<Lit(<<"a", "r", "n", ":">>), Ref("AWS::Partition")>> \o Middle \o Normalized

\* C8 as stated: the output joins, with the empty separator, 'arn:', the
\* partition reference, the middle for the resolved pair and the resource
\* parts, and the literal fragments before the resource parts hold exactly
\* five colons.
C8_Fragments ==
    (InCloudformation /\ result.kind = "return") =>
        Shape /\ LiteralColons(Before) = 5

\* C8 amended: the same fragments; the literal fragments before the resource
\* parts hold five colons besides those of the service name.
C8_FragmentsServiceColons ==
    (InCloudformation /\ result.kind = "return") =>
        Shape /\ LiteralColons(Before) = 5 + Colons(call.service)

\* The region-only middle, in front of a list of two parts.
C8_Witness ==
    /\ InCloudformation /\ result.kind = "return"
    /\ result.arn_has = <<TRUE, FALSE>>
    /\ call.resource = ListArg(<<Lit(<<"a">>), Ref("MyTable")>>)
    /\ Len(Fragments) = 7
    /\ Fragments[5] = Lit(<<":", ":">>)

\* The first element of the resource list when it is a str, else ''.
FirstLiteral(parts) == IF Head(parts).t = "str" THEN Head(parts).v ELSE <<>>

\* C10: the policy is looked up with the first element of the normalized
\* resource when it is a str and with '' otherwise, and every call with the
\* same service, flags and first element has the same fragments before its
\* resource parts.
C10_FirstElementDecides ==
    (InCloudformation /\ result.kind = "return") =>
        /\ result.resource_for_config = FirstLiteral(Normalized)
        /\ result.arn_has =
               arn_config(call.service, FirstLiteral(Normalized),
                          call.force_region, call.force_account)
        /\ \A l \in SeqsUpTo(CfnParts, MaxParts) :
               (l # <<>> /\ Head(l) = Head(Normalized)) =>
                   LET other == cloudformation(call.service, ListArg(l),
                                               call.force_region, call.force_account)
                       parts == other.value.FnJoin[2]
                   IN  SubSeq(parts, 1, Len(parts) - Len(l)) = Before

\* The first element is a reference and a later one would match the rule
\* of the service: the lookup used '' and fell through to the later rule.
C10_Witness ==
    /\ InCloudformation /\ result.kind = "return"
    /\ call.service = <<"t">>
    /\ call.resource = ListArg(<<Ref("MyTable"), Lit(<<"a">>)>>)
    /\ Unforced
    /\ result.resource_for_config = <<>>
    /\ result.arn_has = <<FALSE, TRUE>>

====
